---- MODULE Spec2Model ----
(***************************************************************************)
(* Model of the PriceAlert price-drop monitor:                             *)
(*   fetchCruises       src/src/lib/cruise-api.ts:161-225                  *)
(*   monitorPriceDrops  src/unnamed/part_001:219-322                       *)
(*   sendPriceDropEmail src/unnamed/part_001:187-213                       *)
(* Prices are JavaScript numbers: parseFloat of the feed's decimal text,   *)
(* IEEE-754 binary64, round-to-nearest-even.  The arithmetic is modelled   *)
(* bit-exactly on 53-bit significands kept as bit sequences.               *)
(***************************************************************************)
EXTENDS Integers, Sequences, FiniteSets, TLC

None == "none"

\* model bounds
MaxGrades == 2    \* grades listed under one cruise record of the feed
MaxRuns == 2      \* invocations of monitorPriceDrops in one behaviour
MaxFetches == 3   \* page requests of one fetchCruises call
MaxTests == 1     \* calls of sendTestEmailAction in one behaviour

(***************************************************************************)
(* Texts.  TLC cannot index into a string, so every text that the program  *)
(* parses is carried as the sequence of its characters.                    *)
(***************************************************************************)
DigitVal ==
  ("0" :> 0) @@ ("1" :> 1) @@ ("2" :> 2) @@ ("3" :> 3) @@ ("4" :> 4) @@
  ("5" :> 5) @@ ("6" :> 6) @@ ("7" :> 7) @@ ("8" :> 8) @@ ("9" :> 9)

IsDigit(c) == c \in DOMAIN DigitVal

RECURSIVE DigitRun(_, _)
\* the values of the longest run of decimal digits of cs starting at index i
DigitRun(cs, i) ==
  IF i <= Len(cs) /\ IsDigit(cs[i])
    THEN <<DigitVal[cs[i]]>> \o DigitRun(cs, i + 1)
    ELSE <<>>

RECURSIVE DecValue(_)
DecValue(ds) ==
  IF ds = <<>> THEN 0
  ELSE 10 * DecValue(SubSeq(ds, 1, Len(ds) - 1)) + ds[Len(ds)]

RECURSIVE Pow10(_)
Pow10(k) == IF k = 0 THEN 1 ELSE 10 * Pow10(k - 1)

(***************************************************************************)
(* binary64.  A number is NaN, Zero, or [neg, e, m]: m is the 53-bit       *)
(* significand, most significant bit first (m[1] = 1), and e the exponent  *)
(* of m[1]; its magnitude is the sum of m[i] * 2^(e - i + 1).              *)
(***************************************************************************)
Precision == 53

NaN == [kind |-> "NaN"]
Zero == [kind |-> "zero"]

RECURSIVE IntBits(_)
IntBits(n) == IF n = 0 THEN <<>> ELSE Append(IntBits(n \div 2), n % 2)

RECURSIVE FracBits(_, _, _)
\* the first k binary digits of the fraction r / den (0 <= r < den)
FracBits(r, den, k) ==
  IF k = 0 THEN <<>>
  ELSE <<(2 * r) \div den>> \o FracBits((2 * r) % den, den, k - 1)

RECURSIVE FracRem(_, _, _)
\* what is left of r / den after k binary digits
FracRem(r, den, k) == IF k = 0 THEN r ELSE FracRem((2 * r) % den, den, k - 1)

RECURSIVE LeadingZeroBits(_, _)
\* number of zero binary digits before the first one of r / den (0 < r < den)
LeadingZeroBits(r, den) ==
  IF 2 * r >= den THEN 0 ELSE 1 + LeadingZeroBits(2 * r, den)

Zeros(k) == [i \in 1..k |-> 0]

RECURSIVE Inc(_)
\* bits + 1, same length (the caller handles the all-ones case)
Inc(b) ==
  IF b = <<>> THEN <<>>
  ELSE IF b[Len(b)] = 0 THEN SubSeq(b, 1, Len(b) - 1) \o <<1>>
  ELSE Inc(SubSeq(b, 1, Len(b) - 1)) \o <<0>>

\* round-to-nearest, ties-to-even, of the magnitude whose binary digits are
\* bits (bits[1] = 1, of exponent e) followed by a non-zero tail iff sticky
RoundBits(neg, bits, e, sticky) ==
  IF Len(bits) <= Precision
    THEN [kind |-> "num", neg |-> neg, e |-> e,
          m |-> bits \o Zeros(Precision - Len(bits))]
    ELSE
      LET head == SubSeq(bits, 1, Precision)
          rb == bits[Precision + 1]
          st == sticky \/ \E i \in (Precision + 2)..Len(bits) : bits[i] = 1
          up == rb = 1 /\ (st \/ head[Precision] = 1)
      IN IF ~up THEN [kind |-> "num", neg |-> neg, e |-> e, m |-> head]
         ELSE IF \A i \in 1..Precision : head[i] = 1
           THEN [kind |-> "num", neg |-> neg, e |-> e + 1,
                 m |-> <<1>> \o Zeros(Precision - 1)]
           ELSE [kind |-> "num", neg |-> neg, e |-> e, m |-> Inc(head)]

\* the binary64 nearest to num / den (num >= 0, den > 0)
ToDouble(neg, num, den) ==
  IF num = 0 THEN Zero
  ELSE
    LET ip == num \div den
        r0 == num % den
    IN IF ip > 0
         THEN LET ib == IntBits(ip)
                  k == Precision + 1 - Len(ib)
              IN RoundBits(neg, ib \o FracBits(r0, den, k), Len(ib) - 1,
                           FracRem(r0, den, k) # 0)
         ELSE LET z == LeadingZeroBits(r0, den)
                  k == z + Precision + 1
              IN RoundBits(neg, SubSeq(FracBits(r0, den, k), z + 1, k),
                           0 - (z + 1), FracRem(r0, den, k) # 0)

\* the longest numeric prefix of a text: optional sign, digits, optional
\* fraction; digits are those of the integer and fraction parts together
NumericPrefix(cs) ==
  LET start == IF cs # <<>> /\ cs[1] \in {"-", "+"} THEN 2 ELSE 1
      ip == DigitRun(cs, start)
      dot == start + Len(ip)
      fp == IF dot <= Len(cs) /\ cs[dot] = "." THEN DigitRun(cs, dot + 1)
            ELSE <<>>
  IN [neg |-> cs # <<>> /\ cs[1] = "-", digits |-> ip \o fp, scale |-> Len(fp)]

\* the conversion parseFloat makes: the numeric prefix is converted and the
\* rest of the text ignored; NaN when there is no digit
StringToNumber(cs) ==
  LET p == NumericPrefix(cs)
  IN IF p.digits = <<>> THEN NaN
     ELSE ToDouble(p.neg, DecValue(p.digits), Pow10(p.scale))

\* the price texts of the feeds and the literal 0.01
Chars1200_00 == <<"1", "2", "0", "0", ".", "0", "0">>
Chars1200_01 == <<"1", "2", "0", "0", ".", "0", "1">>
Chars950_00 == <<"9", "5", "0", ".", "0", "0">>
Chars0_00 == <<"0", ".", "0", "0">>
CharsNA == <<"N", "/", "A">>
Chars0_01 == <<"0", ".", "0", "1">>

PriceTexts ==
  {Chars1200_00, Chars1200_01, Chars950_00, Chars0_00, CharsNA, Chars0_01}

\* their conversions, computed once
Parsed == [cs \in PriceTexts |-> StringToNumber(cs)]

parseFloat(cs) ==
  IF cs \in PriceTexts THEN Parsed[cs] ELSE StringToNumber(cs)

RECURSIVE LexLess(_, _)
LexLess(a, b) ==
  IF a = <<>> \/ b = <<>> THEN FALSE
  ELSE IF a[1] # b[1] THEN a[1] < b[1]
  ELSE LexLess(Tail(a), Tail(b))

\* x < y for positive numbers
MagLess(x, y) == x.e < y.e \/ (x.e = y.e /\ LexLess(x.m, y.m))

\* x > 0 (false for NaN)
IsPositive(x) == x.kind = "num" /\ ~x.neg

RECURSIVE SubBits(_, _, _, _)
\* digits 1..i of a - b - borrow on equal-length bit sequences, a >= b
SubBits(a, b, i, borrow) ==
  IF i = 0 THEN <<>>
  ELSE LET d == a[i] - b[i] - borrow
       IN IF d < 0 THEN SubBits(a, b, i - 1, 1) \o <<d + 2>>
          ELSE SubBits(a, b, i - 1, 0) \o <<d>>

RECURSIVE LeadingZeros(_)
LeadingZeros(b) ==
  IF b = <<>> \/ b[1] = 1 THEN 0 ELSE 1 + LeadingZeros(Tail(b))

\* x - y for positive numbers x, y: exact difference, then rounded
Difference(x, y) ==
  IF x = y THEN Zero
  ELSE
    LET neg == MagLess(x, y)
        hi == IF neg THEN y ELSE x
        lo == IF neg THEN x ELSE y
        shift == hi.e - lo.e
        d == SubBits(hi.m \o Zeros(shift), Zeros(shift) \o lo.m,
                     Precision + shift, 0)
        z == LeadingZeros(d)
    IN RoundBits(neg, SubSeq(d, z + 1, Len(d)), hi.e - z, FALSE)

\* the differences of the prices of the feeds, computed once
Prices == {Parsed[cs] : cs \in {Chars1200_00, Chars1200_01, Chars950_00}}

Differences == [p \in Prices \X Prices |-> Difference(p[1], p[2])]

FloatSub(x, y) ==
  IF <<x, y>> \in DOMAIN Differences THEN Differences[<<x, y>>]
  ELSE Difference(x, y)

\* x >= y where y is a positive number (false for NaN, zero and negatives)
FloatGE(x, y) == IsPositive(x) /\ ~MagLess(x, y)

\* the literal 0.01 of the comparison at src/unnamed/part_001:292
MinDrop == parseFloat(Chars0_01)

(***************************************************************************)
(* The feed.  A feed maps each page URL to the response the server gives:  *)
(* status "ok" | "http" (response.ok false) | "neterr" (fetch rejects) |   *)
(* "badjson" (JSON.parse throws); cruises, each with a vendor_id and its   *)
(* grades; and the href of _links.next (None when absent).                 *)
(* A missing field and an empty one are both falsy in every test the code  *)
(* makes, so both are written "" (a text), <<>> (a price or a list).       *)
(***************************************************************************)
API_ENDPOINT_URL == "U1"
Urls == {"U1", "U2"}

Grade(code, name, deal, price) ==
  [grade_code |-> code, grade_name |-> name, dealName |-> deal, price |-> price]

Cruise(vendor, grades) == [vendor_id |-> vendor, grades |-> grades]

Page(status, cruises, next) ==
  [status |-> status, cruises |-> cruises, next |-> next]

NoPage == Page("http", <<>>, None)

RECURSIVE SeqsUpTo(_, _)
\* the sequences of at most n elements of S
SeqsUpTo(S, n) ==
  IF n = 0 THEN {<<>>}
  ELSE LET shorter == SeqsUpTo(S, n - 1)
       IN shorter \cup {Append(q, x) : q \in shorter, x \in S}

RECURSIVE DistinctSeqsUpTo(_, _)
\* those of them in which no element occurs twice
DistinctSeqsUpTo(S, n) ==
  IF n = 0 THEN {<<>>}
  ELSE LET shorter == DistinctSeqsUpTo(S, n - 1)
       IN shorter \cup
          {Append(qx[1], qx[2]) :
             qx \in {qy \in shorter \X S :
                       \A i \in DOMAIN qy[1] : qy[1][i] # qy[2]}}

\* feeds of the monitoring runs: one page, one cruise of vendor MSC-1 whose
\* grades are two cabins at two prices (a cabin may be listed at both), or
\* a page that cannot be fetched
RunGrades ==
  {Grade(c, "Cabin", "BELLA", p) :
     c \in {"BAL", "INS"}, p \in {Chars1200_00, Chars950_00}}

RunFeeds ==
  {[u \in Urls |-> IF u = API_ENDPOINT_URL
                     THEN Page("ok", <<Cruise("MSC-1", gs)>>, None)
                     ELSE NoPage] :
     gs \in DistinctSeqsUpTo(RunGrades, MaxGrades)}
  \cup {[u \in Urls |-> NoPage]}

\* feeds of the runs that compare prices one cent apart: one cabin at
\* 1200.01, at 1200.00 and at 950.00
CentGrades ==
  {Grade("INS", "Cabin", "BELLA", p) :
     p \in {Chars1200_01, Chars1200_00, Chars950_00}}

CentFeeds ==
  {[u \in Urls |-> IF u = API_ENDPOINT_URL
                     THEN Page("ok", <<Cruise("MSC-1", gs)>>, None)
                     ELSE NoPage] : gs \in SeqsUpTo(CentGrades, MaxGrades)}

\* feeds of the flattener alone.  Grades: a good one, the same offering at
\* another price, another cabin, another deal, one without a deal, and the
\* malformed ones.
FetchGrades ==
  {Grade("BAL", "Balcony", "BELLA", Chars1200_00),
   Grade("BAL", "Balcony", "BELLA", Chars950_00),
   Grade("INS", "Inside", "BELLA", Chars1200_00),
   Grade("BAL", "Balcony", "1-BELLA", Chars1200_00),
   Grade("BAL", "Balcony", "", Chars1200_00),
   Grade("", "Balcony", "BELLA", Chars1200_00),
   Grade("INS", "", "BELLA", Chars1200_00),
   Grade("INS", "Inside", "BELLA", Chars0_00),
   Grade("INS", "Inside", "BELLA", CharsNA),
   Grade("INS", "Inside", "BELLA", <<>>)}

Vendors == {"MSC-1", "MSC"}

\* one page, one cruise, every list of grades
ContentFeeds ==
  {[u \in Urls |-> IF u = API_ENDPOINT_URL
                     THEN Page("ok", <<Cruise(v, gs)>>, None)
                     ELSE NoPage] :
     v \in Vendors, gs \in SeqsUpTo(FetchGrades, MaxGrades)}

\* two pages, every status and every link structure, three page contents
PageCruises ==
  {<<>>,
   <<Cruise("MSC-1", <<Grade("BAL", "Balcony", "BELLA", Chars1200_00)>>)>>,
   <<Cruise("MSC", <<Grade("BAL", "Balcony", "1-BELLA", Chars950_00)>>),
     Cruise("MSC-1", <<Grade("BAL", "Balcony", "BELLA", Chars950_00),
                       Grade("INS", "Inside", "BELLA", Chars1200_00)>>)>>}

PaginationFeeds ==
  [Urls -> {Page(st, cs, nx) : st \in {"ok", "http", "neterr", "badjson"},
                               cs \in PageCruises,
                               nx \in Urls \cup {None}}]

\* feeds of the runs that compare identities: one page of cruises of one
\* grade each, over three offerings that differ in vendor and deal, or in
\* grade; the first of them at two prices
KeyCruises ==
  {Cruise("MSC-1", <<Grade("BAL", "Cabin", "BELLA", Chars1200_00)>>),
   Cruise("MSC-1", <<Grade("BAL", "Cabin", "BELLA", Chars950_00)>>),
   Cruise("MSC", <<Grade("BAL", "Cabin", "1-BELLA", Chars1200_00)>>),
   Cruise("MSC-1", <<Grade("INS", "Cabin", "BELLA", Chars1200_00)>>)}

KeyFeeds ==
  {[u \in Urls |-> IF u = API_ENDPOINT_URL THEN Page("ok", cs, None)
                   ELSE NoPage] : cs \in DistinctSeqsUpTo(KeyCruises, MaxGrades)}

\* feeds of the runs with store faults and with test notifications: one
\* cabin at two prices, or a page that cannot be fetched
SmallGrades ==
  {Grade("BAL", "Cabin", "BELLA", p) : p \in {Chars1200_00, Chars950_00}}

SmallFeeds ==
  {[u \in Urls |-> IF u = API_ENDPOINT_URL
                     THEN Page("ok", <<Cruise("MSC-1", gs)>>, None)
                     ELSE NoPage] :
     gs \in DistinctSeqsUpTo(SmallGrades, MaxGrades)}
  \cup {[u \in Urls |-> NoPage]}

\* feeds of the runs over two pages: the first page links to the second,
\* both answer, each with one of the three page contents
PagedFeeds ==
  {[u \in Urls |-> IF u = API_ENDPOINT_URL THEN Page("ok", c1, "U2")
                   ELSE Page("ok", c2, None)] :
     c1 \in PageCruises, c2 \in PageCruises}

\* feeds of the runs that may overlap: one cabin at one of two prices, or a
\* page that cannot be fetched
RaceFeeds ==
  {[u \in Urls |-> IF u = API_ENDPOINT_URL
                     THEN Page("ok", <<Cruise("MSC-1", <<g>>)>>, None)
                     ELSE NoPage] : g \in SmallGrades}
  \cup {[u \in Urls |-> NoPage]}

Feeds(w) ==
  CASE w = "fetch" -> ContentFeeds \cup PaginationFeeds
    [] w \in {"race", "serial"} -> RaceFeeds
    [] w = "pages" -> PagedFeeds
    [] w = "keys" -> KeyFeeds
    [] w = "cents" -> CentFeeds
    [] w \in {"faults", "admin"} -> SmallFeeds
    [] OTHER -> RunFeeds

(***************************************************************************)
(* fetchCruises: the flattener.                                            *)
(***************************************************************************)
\* JavaScript truthiness of a text field, and of a price or list field
Truthy(s) == s # ""
TruthyList(s) == s # <<>>

\* The identity key.  monitorPriceDrops reads offering.offering_id
\* (src/unnamed/part_001:281,286), which the flattener under
\* src/src/lib/cruise-api.ts does not set; it is built as the design states:
\* vendor id, deal and grade code joined by a pipe.
Separator == "|"

OfferingId(vendor, deal, grade) ==
  vendor \o Separator \o deal \o Separator \o grade

\* KeepGrade asking for a deal as well
KeepGradeWithDeal(grade) ==
  /\ TruthyList(grade.price)
  /\ IsPositive(parseFloat(grade.price))
  /\ Truthy(grade.grade_code)
  /\ Truthy(grade.grade_name)
  /\ Truthy(grade.dealName)

\* KeepGrade testing the price alone (the test of cruise-api.ts:76)
KeepGradeByPrice(grade) ==
  /\ TruthyList(grade.price)
  /\ IsPositive(parseFloat(grade.price))

\* the test of cruise-api.ts:192
KeepGrade(grade) ==
  /\ TruthyList(grade.price)
  /\ IsPositive(parseFloat(grade.price))
  /\ Truthy(grade.grade_code)
  /\ Truthy(grade.grade_name)

\* MakeOffering with the price made part of the identity key
MakeOfferingKeyedByPrice(cruise, grade) ==
  [offering_id |->
     OfferingId(cruise.vendor_id, grade.dealName, grade.grade_code)
       \o Separator \o (IF grade.price = Chars950_00 THEN "950.00" ELSE "-"),
   vendor_id |-> cruise.vendor_id,
   dealName |-> grade.dealName,
   grade_code |-> grade.grade_code,
   grade_name |-> grade.grade_name,
   price |-> grade.price]

\* the object pushed at cruise-api.ts:193-201 (ship_title, starts_on and
\* name are copied through and take no part in any decision)
MakeOffering(cruise, grade) ==
  [offering_id |-> OfferingId(cruise.vendor_id, grade.dealName, grade.grade_code),
   vendor_id |-> cruise.vendor_id,
   dealName |-> grade.dealName,
   grade_code |-> grade.grade_code,
   grade_name |-> grade.grade_name,
   price |-> grade.price]

RECURSIVE FlattenGrades(_, _, _)
\* for (const grade of cruise.grades), from index i on
FlattenGrades(cruise, i, acc) ==
  IF i > Len(cruise.grades) THEN acc
  ELSE FlattenGrades(cruise, i + 1,
         IF KeepGrade(cruise.grades[i])
           THEN Append(acc, MakeOffering(cruise, cruise.grades[i]))
           ELSE acc)

RECURSIVE FlattenCruises(_, _, _)
\* for (const cruise of cruises), from index i on
FlattenCruises(cruises, i, acc) ==
  IF i > Len(cruises) THEN acc
  ELSE FlattenCruises(cruises, i + 1,
         IF TruthyList(cruises[i].grades)
           THEN FlattenGrades(cruises[i], 1, acc)
           ELSE acc)

\* NextUrl without the comparison with the URL just fetched
NextUrlUnguarded(nextUrl, currentUrl) == nextUrl

\* the else branch of cruise-api.ts:211-215
NextUrl(nextUrl, currentUrl) ==
  IF nextUrl # None /\ nextUrl # currentUrl THEN nextUrl ELSE None

\* OnPageFailure dropping what the earlier pages gave
OnPageFailureDiscard(allOfferings) == <<>>

\* a page that cannot be used: the break of cruise-api.ts:170-175 and the
\* catch of cruise-api.ts:217-220 leave allOfferings as it is and end the loop
OnPageFailure(allOfferings) == allOfferings

VARIABLES
  world,        \* which feeds the server may serve and whether the store
                \* may fail: "run", "cents", "keys", "pages", "fetch",
                \* "faults", "admin"; "race" and "serial": two invocations
                \* at a time, and the same with a trigger that waits for
                \* the invocation in progress
  env,          \* [email, db]: NOTIFICATION_EMAIL set, MongoDB configured
  latest,       \* document 'latest' of cruises_latest
  previous,     \* document 'previous' of cruises_previous
  priceDrops,   \* collection priceDrops, in insertion order
  mail,         \* the calls of sendPriceDropEmail, in order: who called,
                \* the batch, and whether it answered success or threw
  tests,        \* what the calls of sendTestEmailAction returned, in order
  nRuns,        \* invocations of monitorPriceDrops so far
  run           \* per invocation in progress: its position and locals

vars == <<world, env, latest, previous, priceDrops, mail, tests, nRuns, run>>

\* the invocations that may be in progress; a behaviour uses DOMAIN run
Runs == {1, 2}

NoDoc == [exists |-> FALSE, offerings |-> <<>>]
Doc(offerings) == [exists |-> TRUE, offerings |-> offerings]

\* runCronJobAction with a catch that reports success
runCronJobActionLenient(threw) ==
  [success |-> TRUE, message |-> "Price drop check completed.", error |-> ""]

\* src/src/lib/actions.ts:74-84: what the server action returns when
\* monitorPriceDrops has returned, or has thrown
runCronJobAction(threw) ==
  IF threw
    THEN [success |-> FALSE, message |-> "", error |-> "Cron job failed"]
    ELSE [success |-> TRUE, message |-> "Price drop check completed.",
          error |-> ""]

\* src/unnamed/part_003:150-160: what the cron route answers
GET(threw) ==
  IF threw
    THEN [success |-> FALSE, message |-> "Cron job failed.", status |-> 500]
    ELSE [success |-> TRUE, message |-> "Price drop check completed.",
          status |-> 200]

\* the answer of either caller of monitorPriceDrops
Respond(threw) == [action |-> runCronJobAction(threw), cron |-> GET(threw)]

NoResult ==
  [action |-> [success |-> FALSE, message |-> "", error |-> "pending"],
   cron |-> [success |-> FALSE, message |-> "", status |-> 0]]

\* the locals of one invocation; latest0, previous0, lastPc, lastFeed and
\* lastDrops remember the two slots at its start and how the invocation
\* before it ended, what it was served and what it detected
IdleRun ==
  [pc |-> "idle", no |-> 0, feed |-> [u \in Urls |-> NoPage],
   currentUrl |-> None, allOfferings |-> <<>>, fetched |-> <<>>,
   latestDoc |-> NoDoc, latest0 |-> NoDoc, previous0 |-> NoDoc,
   lastPc |-> "idle", lastFeed |-> [u \in Urls |-> NoPage],
   lastDrops |-> <<>>,
   currentOfferings |-> <<>>, previousOfferings |-> <<>>,
   detectedDrops |-> <<>>, result |-> NoResult]

\* monitorPriceDrops returns ("done", "skipped") or throws ("failed"), and
\* its caller answers
Ended(rec, pc) ==
  [rec EXCEPT !.pc = pc, !.result = Respond(pc = "failed")]

\* the replies of a store operation: TRUE when it succeeds, FALSE when it
\* throws (the store cannot be reached)
StoreReplies == IF world = "faults" THEN BOOLEAN ELSE {TRUE}

\* ShouldArchive without the archive
ShouldArchiveNever(latestDoc) == FALSE

\* part_001:242: "latest" is copied to "previous" only when it exists
ShouldArchive(latestDoc) == latestDoc.exists

\* ShouldSaveLatest without the test for an empty fetch
ShouldSaveAlways(offerings) == TRUE

\* part_001:260: the "latest" slot is written only for a non-empty fetch
ShouldSaveLatest(offerings) == Len(offerings) > 0

\* AfterFetch with the archive placed behind the fetch
AfterFetchArchive(offerings) == "archive"

\* where monitorPriceDrops goes when fetchCruises has returned
\* (part_001:254-271; fetchCruises returns an array on every path)
AfterFetch(offerings) ==
  IF ShouldSaveLatest(offerings) THEN "saveLatest" ELSE "findPrevious"

\* one iteration of the while loop of fetchCruises (cruise-api.ts:165-221);
\* when the loop ends the call returns allOfferings to its caller
FetchPage(r) ==
  /\ r \in DOMAIN run
  /\ run[r].pc = "fetch"
  /\ run[r].currentUrl # None
  /\ Len(run[r].fetched) < MaxFetches
  /\ LET url == run[r].currentUrl
         page == run[r].feed[url]
         all == IF page.status = "ok"
                  THEN FlattenCruises(page.cruises, 1, run[r].allOfferings)
                  ELSE OnPageFailure(run[r].allOfferings)
         nxt == IF page.status = "ok" THEN NextUrl(page.next, url) ELSE None
     IN run' = [run EXCEPT ![r].fetched = Append(@, url),
                           ![r].allOfferings = all,
                           ![r].currentUrl = nxt,
                           ![r].currentOfferings =
                               IF nxt = None THEN all ELSE @,
                           ![r].pc = IF nxt = None THEN AfterFetch(all) ELSE @]
  /\ UNCHANGED <<world, env, latest, previous, priceDrops, mail, tests, nRuns>>

(***************************************************************************)
(* monitorPriceDrops (src/unnamed/part_001:219-322).  Every await of the   *)
(* flow is one step: a store operation, a page request or the notifier.    *)
(***************************************************************************)
RECURSIVE MapOfPrevious(_, _, _)
\* previousOfferingsMap.set(offering.offering_id, offering) over the list
\* (part_001:279-282): a later entry replaces an earlier one of the same key
MapOfPrevious(previousOfferings, i, map) ==
  IF i > Len(previousOfferings) THEN map
  ELSE MapOfPrevious(previousOfferings, i + 1,
         (previousOfferings[i].offering_id :> previousOfferings[i]) @@ map)

\* previousOfferingsMap.get(current.offering_id) is defined (part_001:286-288)
HasPrevious(map, current) == current.offering_id \in DOMAIN map

GetPrevious(map, current) == map[current.offering_id]

\* IsDrop with the operands of the subtraction exchanged
IsDropSwapped(currentPrice, previousPrice) ==
  /\ IsPositive(currentPrice)
  /\ IsPositive(previousPrice)
  /\ FloatGE(FloatSub(currentPrice, previousPrice), MinDrop)

\* the test of part_001:292
IsDrop(currentPrice, previousPrice) ==
  /\ IsPositive(currentPrice)
  /\ IsPositive(previousPrice)
  /\ FloatGE(FloatSub(previousPrice, currentPrice), MinDrop)

\* the PriceDropInfo of part_001:294-305 (shipName and cruiseDate are text
\* for the mail only; detectedAt is the number of the invocation)
PriceDropInfo(current, previousPrice, currentPrice, now) ==
  [vendorId |-> current.vendor_id,
   dealName |-> current.dealName,
   gradeCode |-> current.grade_code,
   gradeName |-> current.grade_name,
   priceFrom |-> previousPrice,
   priceTo |-> currentPrice,
   detectedAt |-> now]

RECURSIVE DetectLoopByVendor(_, _, _, _, _)
\* DetectLoop looking the previous offering up by vendor_id alone
DetectLoopByVendor(currentOfferings, map, i, now, acc) ==
  IF i > Len(currentOfferings) THEN acc
  ELSE
    LET current == currentOfferings[i]
        sameVendor == {k \in DOMAIN map : map[k].vendor_id = current.vendor_id}
    IN DetectLoopByVendor(currentOfferings, map, i + 1, now,
         IF sameVendor # {}
           THEN LET currentPrice == parseFloat(current.price)
                    previousPrice ==
                      parseFloat(map[CHOOSE k \in sameVendor : TRUE].price)
                IN IF IsDrop(currentPrice, previousPrice)
                     THEN Append(acc, PriceDropInfo(current, previousPrice,
                                                    currentPrice, now))
                     ELSE acc
           ELSE acc)

RECURSIVE DetectLoop(_, _, _, _, _)
\* for (const current of currentOfferings), from index i on (part_001:285-309)
DetectLoop(currentOfferings, map, i, now, acc) ==
  IF i > Len(currentOfferings) THEN acc
  ELSE
    LET current == currentOfferings[i]
    IN DetectLoop(currentOfferings, map, i + 1, now,
         IF HasPrevious(map, current)
           THEN LET currentPrice == parseFloat(current.price)
                    previousPrice == parseFloat(GetPrevious(map, current).price)
                IN IF IsDrop(currentPrice, previousPrice)
                     THEN Append(acc, PriceDropInfo(current, previousPrice,
                                                    currentPrice, now))
                     ELSE acc
           ELSE acc)

\* DetectDrops reporting an offering without history as a drop
DetectDropsNoHistory(currentOfferings, previousOfferings, now) ==
  LET map == MapOfPrevious(previousOfferings, 1, <<>>)
      new == SelectSeq(currentOfferings, LAMBDA c : ~HasPrevious(map, c))
  IN DetectLoop(currentOfferings, map, 1, now, <<>>)
     \o [i \in 1..Len(new) |->
           PriceDropInfo(new[i], parseFloat(new[i].price),
                         parseFloat(new[i].price), now)]

\* part_001:277-310
DetectDrops(currentOfferings, previousOfferings, now) ==
  IF Len(previousOfferings) > 0
    THEN DetectLoop(currentOfferings,
                    MapOfPrevious(previousOfferings, 1, <<>>), 1, now, <<>>)
    ELSE <<>>

\* part_001:312: anything to log and to notify
HasDrops(detectedDrops) == Len(detectedDrops) > 0

\* NotifyBatches with one call per drop
NotifyEach(detectedDrops) ==
  [i \in 1..Len(detectedDrops) |-> <<detectedDrops[i]>>]

\* the batches handed to the notifier for the drops of one run
\* (part_001:315: one call with the whole list)
NotifyBatches(detectedDrops) == <<detectedDrops>>

\* Configured without the test of the collections
ConfiguredByEmail == env.email

\* part_001:224-238: the flow returns at once without recipient or database
Configured == env.email /\ env.db

\* MayStart of a trigger that never waits
MayStartAlways(r) == TRUE

\* when an invocation may be triggered: the flow itself takes no lock
\* (part_001:219-240), so any time, unless the deployment has a single
\* trigger that waits for the invocation in progress (world "serial")
MayStart(r) ==
  world = "serial" =>
    \A q \in DOMAIN run \ {r} :
      run[q].pc \in {"idle", "done", "skipped", "failed"}

\* a new invocation: part_001:223-238, the configuration tests and the
\* connection to the store; the feed it will see is fixed here
Start(r) ==
  /\ r \in DOMAIN run
  /\ run[r].pc \in {"idle", "done", "skipped", "failed"}
  /\ MayStart(r)
  /\ nRuns < MaxRuns
  /\ nRuns' = nRuns + 1
  /\ LET fresh == [IdleRun EXCEPT !.no = nRuns + 1,
                                  !.latest0 = latest,
                                  !.previous0 = previous,
                                  !.lastPc = run[r].pc,
                                  !.lastFeed = run[r].feed,
                                  !.lastDrops = run[r].detectedDrops]
     IN IF Configured
          THEN \E f \in Feeds(world), ok \in StoreReplies :
                 run' = [run EXCEPT ![r] =
                           IF ok THEN [fresh EXCEPT !.pc = "findLatest",
                                                    !.feed = f]
                           ELSE Ended([fresh EXCEPT !.feed = f], "failed")]
          ELSE run' = [run EXCEPT ![r] = Ended(fresh, "skipped")]
  /\ UNCHANGED <<world, env, latest, previous, priceDrops, mail, tests>>

\* part_001:241: latestCruisesCollection.findOne({_id: 'latest'})
FindLatest(r) ==
  /\ r \in DOMAIN run
  /\ run[r].pc = "findLatest"
  /\ \E ok \in StoreReplies :
       run' = IF ok
                THEN [run EXCEPT ![r].latestDoc = latest,
                                 ![r].currentUrl =
                                     IF ShouldArchive(latest) THEN @
                                     ELSE API_ENDPOINT_URL,
                                 ![r].pc = IF ShouldArchive(latest)
                                             THEN "archive" ELSE "fetch"]
                ELSE [run EXCEPT ![r] = Ended(@, "failed")]
  /\ UNCHANGED <<world, env, latest, previous, priceDrops, mail, tests, nRuns>>

\* Archive moving the snapshot: "latest" is emptied once it is copied
ArchiveMoving(r) ==
  /\ r \in DOMAIN run
  /\ run[r].pc = "archive"
  /\ previous' = Doc(run[r].latestDoc.offerings)
  /\ latest' = NoDoc
  /\ run' = [run EXCEPT ![r].currentUrl = API_ENDPOINT_URL, ![r].pc = "fetch"]
  /\ UNCHANGED <<world, env, priceDrops, mail, tests, nRuns>>

\* part_001:244-248: previousCruisesCollection.updateOne(... upsert)
Archive(r) ==
  /\ r \in DOMAIN run
  /\ run[r].pc = "archive"
  /\ \E ok \in StoreReplies :
       /\ previous' = IF ok THEN Doc(run[r].latestDoc.offerings) ELSE previous
       /\ run' = IF ok
                   THEN [run EXCEPT ![r].currentUrl = API_ENDPOINT_URL,
                                    ![r].pc = "fetch"]
                   ELSE [run EXCEPT ![r] = Ended(@, "failed")]
  /\ UNCHANGED <<world, env, latest, priceDrops, mail, tests, nRuns>>

\* part_001:262-266: latestCruisesCollection.updateOne(... upsert)
SaveLatest(r) ==
  /\ r \in DOMAIN run
  /\ run[r].pc = "saveLatest"
  /\ \E ok \in StoreReplies :
       /\ latest' = IF ok THEN Doc(run[r].currentOfferings) ELSE latest
       /\ run' = IF ok THEN [run EXCEPT ![r].pc = "findPrevious"]
                 ELSE [run EXCEPT ![r] = Ended(@, "failed")]
  /\ UNCHANGED <<world, env, previous, priceDrops, mail, tests, nRuns>>

\* FindPrevious taking each matched offering out of the baseline
FindPreviousConsuming(r) ==
  /\ r \in DOMAIN run
  /\ run[r].pc = "findPrevious"
  /\ LET previousOfferings == previous.offerings
         detectedDrops == DetectDrops(run[r].currentOfferings,
                                      previousOfferings, run[r].no)
         rest == SelectSeq(previousOfferings,
                   LAMBDA p : \A c \in {run[r].currentOfferings[i] :
                                           i \in DOMAIN run[r].currentOfferings} :
                                c.offering_id # p.offering_id)
         rec == [run[r] EXCEPT !.previousOfferings = rest,
                               !.detectedDrops = detectedDrops]
     IN /\ run' = [run EXCEPT ![r] = IF HasDrops(detectedDrops)
                                       THEN [rec EXCEPT !.pc = "insertDrops"]
                                       ELSE Ended(rec, "done")]
        /\ previous' = Doc(rest)
  /\ UNCHANGED <<world, env, latest, priceDrops, mail, tests, nRuns>>

\* part_001:271-310: previousCruisesCollection.findOne, then the comparison
FindPrevious(r) ==
  /\ r \in DOMAIN run
  /\ run[r].pc = "findPrevious"
  /\ \E ok \in StoreReplies :
       LET previousOfferings == previous.offerings
           detectedDrops == DetectDrops(run[r].currentOfferings,
                                        previousOfferings, run[r].no)
           rec == [run[r] EXCEPT !.previousOfferings = previousOfferings,
                                 !.detectedDrops = detectedDrops]
       IN run' = IF ok
                   THEN [run EXCEPT ![r] =
                           IF HasDrops(detectedDrops)
                             THEN [rec EXCEPT !.pc = "insertDrops"]
                             ELSE Ended(rec, "done")]
                   ELSE [run EXCEPT ![r] = Ended(@, "failed")]
  /\ UNCHANGED <<world, env, latest, previous, priceDrops, mail, tests, nRuns>>

\* InsertDrops writing the log anew instead of adding to it
InsertDropsReplacing(r) ==
  /\ r \in DOMAIN run
  /\ run[r].pc = "insertDrops"
  /\ priceDrops' = run[r].detectedDrops
  /\ run' = [run EXCEPT ![r].pc = "notify"]
  /\ UNCHANGED <<world, env, latest, previous, mail, tests, nRuns>>

\* part_001:314: priceDropsCollection.insertMany(detectedDrops)
InsertDrops(r) ==
  /\ r \in DOMAIN run
  /\ run[r].pc = "insertDrops"
  /\ \E ok \in StoreReplies :
       /\ priceDrops' = IF ok THEN priceDrops \o run[r].detectedDrops
                        ELSE priceDrops
       /\ run' = IF ok THEN [run EXCEPT ![r].pc = "notify"]
                 ELSE [run EXCEPT ![r] = Ended(@, "failed")]
  /\ UNCHANGED <<world, env, latest, previous, mail, tests, nRuns>>

\* what a call of sendPriceDropEmail may do (part_001:187-213): send the
\* mail; get no content from the prompt or an error from the transport,
\* both answered with success = false; or throw, when the prompt rejects
NotifyOutcomes == {"sent", "nocontent", "smtperror", "throw"}

\* Notify failing the run whenever the mail was not sent
NotifyStrict(r) ==
  /\ r \in DOMAIN run
  /\ run[r].pc = "notify"
  /\ \E outcome \in NotifyOutcomes :
       /\ mail' = Append(mail, [no |-> run[r].no,
                                priceDrops |-> run[r].detectedDrops,
                                success |-> outcome = "sent",
                                threw |-> outcome = "throw"])
       /\ run' = [run EXCEPT ![r] =
                     Ended(@, IF outcome = "sent" THEN "done" ELSE "failed")]
  /\ UNCHANGED <<world, env, latest, previous, priceDrops, tests, nRuns>>

\* part_001:315: await sendPriceDropEmail({toEmail, priceDrops})
Notify(r) ==
  /\ r \in DOMAIN run
  /\ run[r].pc = "notify"
  /\ \E outcome \in NotifyOutcomes :
       /\ mail' = mail \o
            [i \in 1..Len(NotifyBatches(run[r].detectedDrops)) |->
               [no |-> run[r].no,
                priceDrops |-> NotifyBatches(run[r].detectedDrops)[i],
                success |-> outcome = "sent",
                threw |-> outcome = "throw"]]
       /\ run' = [run EXCEPT ![r] =
                     Ended(@, IF outcome = "throw" THEN "failed" ELSE "done")]
  /\ UNCHANGED <<world, env, latest, previous, priceDrops, tests, nRuns>>

\* the two events of src/src/lib/actions.ts:30-53
testPriceDrops ==
  <<[vendorId |-> "TEST-001", dealName |-> "DRINKS-INC",
     gradeCode |-> "IV-BAL", gradeName |-> "Balcony",
     priceFrom |-> parseFloat(<<"1", "2", "0", "0">>),
     priceTo |-> parseFloat(<<"9", "5", "0">>), detectedAt |-> 0],
    [vendorId |-> "TEST-002", dealName |-> "NO-DRINKS",
     gradeCode |-> "FS-SUI", gradeName |-> "Suite",
     priceFrom |-> parseFloat(<<"2", "5", "0", "0">>),
     priceTo |-> parseFloat(<<"2", "2", "0", "0">>), detectedAt |-> 0]>>

\* sendTestEmailAction that also records its events in the drop log
sendTestEmailActionLogged ==
  /\ Len(tests) < MaxTests
  /\ env.email
  /\ \E outcome \in NotifyOutcomes :
       /\ mail' = Append(mail, [no |-> 0, priceDrops |-> testPriceDrops,
                                success |-> outcome = "sent",
                                threw |-> outcome = "throw"])
       /\ tests' = Append(tests, [success |-> outcome = "sent", error |-> ""])
  /\ priceDrops' = priceDrops \o testPriceDrops
  /\ UNCHANGED <<world, env, latest, previous, nRuns, run>>

\* src/src/lib/actions.ts:22-61
sendTestEmailAction ==
  /\ Len(tests) < MaxTests
  /\ IF ~env.email
       THEN /\ tests' = Append(tests,
                 [success |-> FALSE,
                  error |-> "NOTIFICATION_EMAIL environment variable not set."])
            /\ UNCHANGED mail
       ELSE \E outcome \in NotifyOutcomes :
              /\ mail' = Append(mail, [no |-> 0, priceDrops |-> testPriceDrops,
                                       success |-> outcome = "sent",
                                       threw |-> outcome = "throw"])
              /\ tests' = Append(tests,
                   [success |-> outcome = "sent",
                    error |-> IF outcome = "throw"
                                THEN "Failed to send email notification."
                                ELSE ""])
  /\ UNCHANGED <<world, env, latest, previous, priceDrops, nRuns, run>>

Init ==
  /\ world = "run"
  /\ env \in [email : BOOLEAN, db : BOOLEAN]
  /\ latest = NoDoc /\ previous = NoDoc
  /\ priceDrops = <<>> /\ mail = <<>> /\ tests = <<>>
  /\ nRuns = 0
  /\ run = [r \in {1} |-> IdleRun]

Next ==
  \/ \E r \in Runs : Start(r)
  \/ \E r \in Runs : FindLatest(r)
  \/ \E r \in Runs : Archive(r)
  \/ \E r \in Runs : FetchPage(r)
  \/ \E r \in Runs : SaveLatest(r)
  \/ \E r \in Runs : FindPrevious(r)
  \/ \E r \in Runs : InsertDrops(r)
  \/ \E r \in Runs : Notify(r)

Spec == Init /\ [][Next]_vars

\* the runs over the feeds that differ in vendor, deal and grade
InitKeys ==
  /\ world = "keys"
  /\ env \in [email : BOOLEAN, db : BOOLEAN]
  /\ latest = NoDoc /\ previous = NoDoc
  /\ priceDrops = <<>> /\ mail = <<>> /\ tests = <<>>
  /\ nRuns = 0
  /\ run = [r \in {1} |-> IdleRun]

SpecKeys == InitKeys /\ [][Next]_vars

\* the runs over the feeds whose prices are one cent apart
InitCents ==
  /\ world = "cents"
  /\ env \in [email : BOOLEAN, db : BOOLEAN]
  /\ latest = NoDoc /\ previous = NoDoc
  /\ priceDrops = <<>> /\ mail = <<>> /\ tests = <<>>
  /\ nRuns = 0
  /\ run = [r \in {1} |-> IdleRun]

SpecCents == InitCents /\ [][Next]_vars

\* the runs over the feeds of two pages
InitPages ==
  /\ world = "pages"
  /\ env \in [email : BOOLEAN, db : BOOLEAN]
  /\ latest = NoDoc /\ previous = NoDoc
  /\ priceDrops = <<>> /\ mail = <<>> /\ tests = <<>>
  /\ nRuns = 0
  /\ run = [r \in {1} |-> IdleRun]

SpecPages == InitPages /\ [][Next]_vars

\* fetchCruises called on its own, on every feed
InitFetch ==
  /\ world = "fetch"
  /\ env = [email |-> TRUE, db |-> TRUE]
  /\ latest = NoDoc /\ previous = NoDoc
  /\ priceDrops = <<>> /\ mail = <<>> /\ tests = <<>>
  /\ nRuns = 1
  /\ \E f \in Feeds("fetch") :
       run = [r \in {1} |-> [IdleRun EXCEPT !.pc = "fetch", !.no = 1, !.feed = f,
                                             !.currentUrl = API_ENDPOINT_URL]]

NextFetch == \E r \in Runs : FetchPage(r)

SpecFetch == InitFetch /\ [][NextFetch]_vars

\* the "latest" slot after a first run that was served feed f and completed
\* (part_001:260-266)
SeedLatest(f) ==
  LET offerings == FlattenCruises(f[API_ENDPOINT_URL].cruises, 1, <<>>)
  IN IF f[API_ENDPOINT_URL].status = "ok" /\ ShouldSaveLatest(offerings)
       THEN Doc(offerings) ELSE NoDoc

\* the runs against a store whose every operation may fail, from an empty
\* store or from the store a first run has left
InitFaults ==
  /\ world = "faults"
  /\ env \in [email : BOOLEAN, db : BOOLEAN]
  /\ latest \in {SeedLatest(f) : f \in Feeds("faults")}
  /\ previous = NoDoc
  /\ priceDrops = <<>> /\ mail = <<>> /\ tests = <<>>
  /\ nRuns = 0
  /\ run = [r \in {1} |-> IdleRun]

SpecFaults == InitFaults /\ [][Next]_vars

\* two invocations that may overlap, or that a trigger keeps apart, on a
\* store that an earlier run has left
InitRace ==
  /\ world \in {"race", "serial"}
  /\ env \in [email : BOOLEAN, db : BOOLEAN]
  /\ latest \in {SeedLatest(f) : f \in RaceFeeds}
  /\ previous = NoDoc
  /\ priceDrops = <<>> /\ mail = <<>> /\ tests = <<>>
  /\ nRuns = 0
  /\ run = [r \in Runs |-> IdleRun]

SpecRace == InitRace /\ [][Next]_vars

\* the runs and the test notification, in any order
InitAdmin ==
  /\ world = "admin"
  /\ env \in [email : BOOLEAN, db : BOOLEAN]
  /\ latest = NoDoc /\ previous = NoDoc
  /\ priceDrops = <<>> /\ mail = <<>> /\ tests = <<>>
  /\ nRuns = 0
  /\ run = [r \in {1} |-> IdleRun]

NextAdmin ==
  \/ Next
  \/ sendTestEmailAction

SpecAdmin == InitAdmin /\ [][NextAdmin]_vars

(***************************************************************************)
(* Properties.                                                             *)
(***************************************************************************)
Range(q) == {q[i] : i \in DOMAIN q}

Active == DOMAIN run

\* the comparison of the run is finished
Compared(r) == run[r].pc \in {"insertDrops", "notify", "done"}

\* x < y on numbers (false when either is NaN)
Sign(x) == IF x.kind = "zero" THEN 0 ELSE IF x.neg THEN 0 - 1 ELSE 1

NumLess(x, y) ==
  /\ x.kind # "NaN" /\ y.kind # "NaN"
  /\ IF Sign(x) # Sign(y) THEN Sign(x) < Sign(y)
     ELSE IF Sign(x) = 0 THEN FALSE
     ELSE IF Sign(x) = 1 THEN MagLess(x, y)
     ELSE MagLess(y, x)

\* the identity key of the offering an event was made from
EventKey(e) == OfferingId(e.vendorId, e.dealName, e.gradeCode)

\* every event the program holds anywhere
AllEvents ==
  Range(priceDrops)
  \cup UNION {Range(mail[i].priceDrops) : i \in DOMAIN mail}
  \cup UNION {Range(run[r].detectedDrops) : r \in Active}

\* the calls of the notifier made by invocation n
CallsOf(n) == SelectSeq(mail, LAMBDA c : c.no = n)

\* the drop-log entries of invocation n
LoggedBy(n) == SelectSeq(priceDrops, LAMBDA e : e.detectedAt = n)

\* C1: every event inserted into the drop log or handed to the notifier (or
\* detected by a run) has priceTo strictly lower than priceFrom.
C1_DropMonotone == \A e \in AllEvents : NumLess(e.priceTo, e.priceFrom)

C1_Witness == priceDrops # <<>> /\ mail # <<>>

\* C3: a run that started with the "latest" slot absent or empty emits no
\* event: it detects none, inserts none and never calls the notifier.
C3_NoBaselineNoEvents ==
  \A r \in Active :
    (run[r].pc \notin {"idle", "skipped"}
       /\ (~run[r].latest0.exists \/ run[r].latest0.offerings = <<>>))
    => /\ run[r].detectedDrops = <<>>
       /\ CallsOf(run[r].no) = <<>>
       /\ LoggedBy(run[r].no) = <<>>

C3_Witness ==
  \E r \in Active :
    /\ run[r].pc = "done"
    /\ ~run[r].latest0.exists
    /\ Len(run[r].currentOfferings) = 2

\* C4: every event of a run carries the identity and the price of a fetched
\* offering and the price of a baseline offering of the same identity key,
\* and these two prices differ: new, delisted and unchanged offerings give
\* no event.
C4_EventsNeedBothSnapshots ==
  \A r \in Active :
    \A e \in Range(run[r].detectedDrops) :
      \E c \in Range(run[r].currentOfferings),
         p \in Range(run[r].previousOfferings) :
        /\ c.offering_id = EventKey(e)
        /\ p.offering_id = EventKey(e)
        /\ e.priceTo = parseFloat(c.price)
        /\ e.priceFrom = parseFloat(p.price)
        /\ c.price # p.price

\* a finished comparison without event, of a baseline of one offering and
\* a fetch of that offering at the same price and of a new offering
C4_Witness ==
  \E r \in Active :
    /\ run[r].pc = "done"
    /\ run[r].detectedDrops = <<>>
    /\ Len(run[r].previousOfferings) = 1
    /\ Len(run[r].currentOfferings) = 2
    /\ run[r].previousOfferings[1] \in Range(run[r].currentOfferings)
    /\ \E c \in Range(run[r].currentOfferings) :
         c.offering_id # run[r].previousOfferings[1].offering_id

\* C5: a finished run whose fetch returned nothing leaves "latest" as it
\* was at the start of the run; one whose fetch returned offerings leaves
\* exactly them in "latest"; "latest", once written, is never empty.
C5_PersistRule ==
  /\ \A r \in Active :
       run[r].pc = "done" =>
         IF run[r].currentOfferings = <<>>
           THEN latest = run[r].latest0
           ELSE latest = Doc(run[r].currentOfferings)
  /\ latest.exists => latest.offerings # <<>>

C5_Witness ==
  \E r \in Active :
    /\ run[r].pc = "done"
    /\ run[r].currentOfferings = <<>>
    /\ run[r].latest0.exists
    /\ latest = run[r].latest0

\* C6: each invocation calls the notifier at most once; a finished run has
\* called it exactly when it detected an event, with all its events; and a
\* call is made only with events that are already in the drop log.
C6_BatchedNotification ==
  /\ \A n \in 1..nRuns : Len(CallsOf(n)) <= 1
  /\ \A i \in DOMAIN mail :
       /\ mail[i].priceDrops # <<>>
       /\ mail[i].priceDrops = LoggedBy(mail[i].no)
  /\ \A r \in Active :
       run[r].pc = "done" =>
         IF run[r].detectedDrops = <<>>
           THEN CallsOf(run[r].no) = <<>>
           ELSE /\ Len(CallsOf(run[r].no)) = 1
                /\ CallsOf(run[r].no)[1].priceDrops = run[r].detectedDrops

C6_Witness == \E i \in DOMAIN mail : Len(mail[i].priceDrops) = 2

\* the exact value of a decimal text of at most three decimals, in thousandths
Milli(cs) ==
  LET p == NumericPrefix(cs)
  IN DecValue(p.digits) * Pow10(3 - p.scale)

\* no identity key occurs twice in the list
UniqueKeys(offerings) ==
  \A i, j \in DOMAIN offerings :
    offerings[i].offering_id = offerings[j].offering_id => i = j

EventsOfKey(r, key) ==
  SelectSeq(run[r].detectedDrops, LAMBDA e : EventKey(e) = key)

\* C2: every fetched offering whose identity key is in the baseline, with
\* both prices positive and the baseline price at least 0.01 above the
\* fetched price, yields exactly one event, which carries these two prices.
C2_DetectionComplete ==
  \A r \in Active :
    (Compared(r) /\ UniqueKeys(run[r].currentOfferings)
                 /\ UniqueKeys(run[r].previousOfferings)) =>
      \A c \in Range(run[r].currentOfferings),
         p \in Range(run[r].previousOfferings) :
        (/\ c.offering_id = p.offering_id
         /\ Milli(c.price) > 0
         /\ Milli(p.price) - Milli(c.price) >= 10)
        => /\ Len(EventsOfKey(r, c.offering_id)) = 1
           /\ EventsOfKey(r, c.offering_id)[1].priceFrom = parseFloat(p.price)
           /\ EventsOfKey(r, c.offering_id)[1].priceTo = parseFloat(c.price)

\* the offerings every slot and every run hold
AllOfferings ==
  Range(latest.offerings) \cup Range(previous.offerings)
  \cup UNION {Range(run[r].allOfferings) \cup Range(run[r].currentOfferings)
              \cup Range(run[r].previousOfferings) : r \in Active}

Triple(o) == <<o.vendor_id, o.dealName, o.grade_code>>

C8_Deduplicated == \A r \in Active : UniqueKeys(run[r].allOfferings)

\* C9: for an offering in both snapshots, a decrease of less than 0.01
\* gives no event and a decrease of exactly 0.01 gives an event.
C9_MinimumDelta ==
  \A r \in Active :
    (Compared(r) /\ UniqueKeys(run[r].currentOfferings)
                 /\ UniqueKeys(run[r].previousOfferings)) =>
      \A c \in Range(run[r].currentOfferings),
         p \in Range(run[r].previousOfferings) :
        (c.offering_id = p.offering_id /\ Milli(c.price) > 0) =>
          LET decrease == Milli(p.price) - Milli(c.price)
          IN /\ (decrease >= 0 /\ decrease < 10)
                  => EventsOfKey(r, c.offering_id) = <<>>
             /\ decrease = 10 => EventsOfKey(r, c.offering_id) # <<>>

\* the call has returned to its caller
Returned(r) == run[r].pc \notin {"idle", "fetch"}

\* C10: on a feed whose every next link is the URL of its own page the call
\* requests one page and returns; a page without next link ends the call.
C10_SelfLoopOnePage ==
  \A r \in Active :
    LET f == run[r].feed
        n == Len(run[r].fetched)
    IN /\ (\A u \in Urls : f[u].next = u) =>
            /\ n <= 1
            /\ n = 1 => Returned(r)
       /\ (n > 0 /\ f[run[r].fetched[n]].next = None) => Returned(r)

C10_Witness ==
  \E r \in Active :
    /\ \A u \in Urls : run[r].feed[u].next = u
    /\ run[r].feed[API_ENDPOINT_URL].status = "ok"
    /\ run[r].fetched = <<API_ENDPOINT_URL>>
    /\ Returned(r)
    /\ run[r].currentOfferings # <<>>

RECURSIVE PagesFlat(_, _, _)
\* what the first n requested pages of feed f hold, flattened page by page
PagesFlat(f, urls, n) ==
  IF n = 0 THEN <<>>
  ELSE PagesFlat(f, urls, n - 1)
         \o FlattenCruises(f[urls[n]].cruises, 1, <<>>)

\* C11: when the request of page k fails (status not ok, network error or
\* unparsable body) no further page is requested, the call returns without
\* throwing, and it returns exactly the offerings of pages 1..k-1.
C11_BestEffortPagination ==
  \A r \in Active :
    \A k \in 1..Len(run[r].fetched) :
      run[r].feed[run[r].fetched[k]].status # "ok" =>
        /\ k = Len(run[r].fetched)
        /\ Returned(r)
        /\ run[r].pc # "failed"
        /\ run[r].currentOfferings = PagesFlat(run[r].feed, run[r].fetched, k - 1)

C11_Witness ==
  \E r \in Active :
    /\ Len(run[r].fetched) = 2
    /\ run[r].feed[run[r].fetched[2]].status = "badjson"
    /\ Returned(r)
    /\ Len(run[r].currentOfferings) = 3

\* the stage a run is about to carry out, numbered as the design orders
\* them: FETCH, COMPARE (archive and detection), PERSIST, NOTIFY
DesignStage(pc) ==
  CASE pc = "fetch" -> 1
    [] pc \in {"archive", "findPrevious"} -> 2
    [] pc = "saveLatest" -> 3
    [] pc \in {"insertDrops", "notify"} -> 4
    [] OTHER -> 0

\* the same, numbered as the steps follow each other in monitorPriceDrops
CodeStage(pc) ==
  CASE pc = "findLatest" -> 1
    [] pc = "archive" -> 2
    [] pc = "fetch" -> 3
    [] pc = "saveLatest" -> 4
    [] pc = "findPrevious" -> 5
    [] pc = "insertDrops" -> 6
    [] pc = "notify" -> 7
    [] pc \in {"done", "failed", "skipped"} -> 8
    [] OTHER -> 0

\* run r takes a step of its invocation
Steps(r) == run'[r] # run[r] /\ run'[r].no = run[r].no

\* C12 as stated: a run never goes from a stage of the order FETCH, COMPARE,
\* PERSIST, NOTIFY to an earlier one, and it writes no slot before its fetch
\* has finished.
C12_DesignStageOrder ==
  [][\A r \in Active :
       Steps(r) =>
         /\ (DesignStage(run[r].pc) > 0 /\ DesignStage(run'[r].pc) > 0)
               => DesignStage(run'[r].pc) >= DesignStage(run[r].pc)
         /\ (previous' # previous \/ latest' # latest)
               => (run[r].fetched # <<>> /\ run[r].currentUrl = None)]_vars

\* C12, amended: every step of a run leads to a later stage of the order
\* read "latest", archive, fetch, write "latest", detect, log, notify (the
\* fetch alone repeats, page by page); "previous" is written only by the
\* archive, before the fetch, and "latest" only after the fetch has
\* finished and before detection and notification.
C12_StageOrder ==
  [][\A r \in Active :
       Steps(r) =>
         /\ \/ CodeStage(run'[r].pc) > CodeStage(run[r].pc)
            \/ run[r].pc = "fetch" /\ run'[r].pc = "fetch"
         /\ previous' # previous
              => (run[r].pc = "archive" /\ run[r].fetched = <<>>)
         /\ latest' # latest
              => /\ run[r].pc = "saveLatest"
                 /\ run[r].fetched # <<>> /\ run[r].currentUrl = None
                 /\ run[r].detectedDrops = <<>>
                 /\ CallsOf(run[r].no) = <<>>]_vars

\* a run that archived, fetched, saved, detected, logged and notified
C12_Witness ==
  \E r \in Active :
    /\ run[r].pc = "done"
    /\ run[r].latest0.exists
    /\ previous = Doc(run[r].latest0.offerings)
    /\ latest = Doc(run[r].currentOfferings)
    /\ run[r].detectedDrops # <<>>
    /\ LoggedBy(run[r].no) = run[r].detectedDrops
    /\ Len(CallsOf(run[r].no)) = 1

\* C13: a run that started with a "latest" snapshot compares the fetched
\* offerings against exactly the offerings "latest" held at its start, and
\* a run that started without one leaves the "previous" slot as it was.
C13_ComparisonBaseline ==
  \A r \in Active :
    /\ (Compared(r) /\ run[r].latest0.exists)
         => /\ run[r].previousOfferings = run[r].latest0.offerings
            /\ previous = Doc(run[r].latest0.offerings)
    /\ (run[r].pc \notin {"idle", "skipped"} /\ ~run[r].latest0.exists)
         => previous = run[r].previous0

C13_Witness ==
  \E r \in Active :
    /\ run[r].pc = "done"
    /\ run[r].latest0.exists
    /\ Len(run[r].previousOfferings) = 2
    /\ run[r].previousOfferings = run[r].latest0.offerings
    /\ run[r].currentOfferings # run[r].previousOfferings
    /\ run[r].previous0 # previous

\* the notify stage of invocation n failed: the insertion into the drop log
\* or the notifier threw, or the notifier answered success = false
NotifyFailed(pc, drops, n) ==
  /\ drops # <<>>
  /\ \/ pc = "failed"
     \/ \E i \in DOMAIN mail : mail[i].no = n /\ ~mail[i].success

SameDrop(e1, e2) ==
  /\ EventKey(e1) = EventKey(e2)
  /\ e1.priceFrom = e2.priceFrom
  /\ e1.priceTo = e2.priceTo

\* C15: when the notify stage of a run fails, "latest" holds what the run
\* fetched, and the run after it detects none of the drops of the failed run
\* again.
C15_NotifyFailureKeepsLatest ==
  \A r \in Active :
    /\ NotifyFailed(run[r].pc, run[r].detectedDrops, run[r].no)
         => latest = Doc(run[r].currentOfferings)
    /\ (Compared(r) /\ run[r].no > 1
          /\ NotifyFailed(run[r].lastPc, run[r].lastDrops, run[r].no - 1))
         => \A e \in Range(run[r].detectedDrops) :
              \A e0 \in Range(run[r].lastDrops) : ~SameDrop(e, e0)

\* C16: a run that is skipped for want of the recipient address or of the
\* store does nothing, and the answer its caller gives differs both from
\* the answer for a failed run and from the answer for a completed check.
C16_SkippedOutcome ==
  \A r \in Active :
    run[r].pc = "skipped" =>
      /\ ~Configured
      /\ run[r].fetched = <<>>
      /\ latest = run[r].latest0 /\ previous = run[r].previous0
      /\ CallsOf(run[r].no) = <<>> /\ LoggedBy(run[r].no) = <<>>
      /\ run[r].result.action # runCronJobAction(TRUE)
      /\ run[r].result.cron # GET(TRUE)
      /\ run[r].result.action # runCronJobAction(FALSE)
      /\ run[r].result.cron # GET(FALSE)

\* C17: a run in which a store operation throws ends as failed: the server
\* action answers success = false and the cron route status 500, the
\* operation that threw has written nothing, and the run takes no further
\* step.
C17_PersistenceErrorsFail ==
  /\ [](\A r \in Active :
          run[r].pc = "failed" =>
            /\ ~run[r].result.action.success
            /\ ~run[r].result.cron.success
            /\ run[r].result.cron.status = 500
            /\ (run[r].detectedDrops = <<>> /\ run[r].latest0.exists)
                  => latest \in {run[r].latest0, Doc(run[r].currentOfferings)}
            /\ (run[r].fetched = <<>> /\ run[r].previous0.exists)
                  => previous \in {run[r].previous0,
                                   Doc(run[r].latest0.offerings)})
  /\ [][\A r \in Active :
          run[r].pc = "failed" => ~Steps(r)]_vars

\* the write of "latest" threw after a fetch of offerings
C17_Witness ==
  \E r \in Active :
    /\ run[r].pc = "failed"
    /\ run[r].currentOfferings # <<>>
    /\ run[r].previousOfferings = <<>> /\ run[r].detectedDrops = <<>>
    /\ latest = run[r].latest0
    /\ latest # Doc(run[r].currentOfferings)
    /\ ~run[r].result.action.success

\* C18: a call of sendTestEmailAction, whatever it returns (sent, delivery
\* failed, recipient missing, exception), leaves the "latest" slot, the
\* "previous" slot and the drop log as they were.
C18_TestEmailLeavesState ==
  [][tests' # tests => UNCHANGED <<latest, previous, priceDrops>>]_vars

\* a test notification sent while both slots and the drop log hold data
C18_Witness ==
  /\ tests # <<>> /\ tests[1].success
  /\ \E i \in DOMAIN mail : mail[i].priceDrops = testPriceDrops
  /\ latest.exists /\ previous.exists
  /\ priceDrops # <<>>
  /\ \A e \in Range(priceDrops) : e \notin Range(testPriceDrops)

\* C19: a run that follows a completed run and is served the same feed
\* detects no event, inserts nothing into the drop log, does not call the
\* notifier and leaves the offerings of "latest" as they were.
C19_IdempotentRunNow ==
  \A r \in Active :
    (run[r].pc = "done" /\ run[r].lastPc = "done"
       /\ run[r].feed = run[r].lastFeed) =>
      /\ run[r].detectedDrops = <<>>
      /\ LoggedBy(run[r].no) = <<>>
      /\ CallsOf(run[r].no) = <<>>
      /\ latest.offerings = run[r].latest0.offerings

\* the events without the time they were detected at
StripTime(drops) ==
  [i \in DOMAIN drops |-> [drops[i] EXCEPT !.detectedAt = 0]]

\* run r carries out its detection step
Detects(r) == Steps(r) /\ run[r].pc = "findPrevious"

\* C20 as stated: detection carried out again, later, on the pair it has
\* just compared yields the identical list of events, and the detection
\* step changes neither its two inputs nor any other state.
C20_SameEventLists ==
  [][\A r \in Active :
       Detects(r) =>
         /\ UNCHANGED <<latest, previous, priceDrops, mail>>
         /\ run'[r].currentOfferings = run[r].currentOfferings
         /\ run'[r].previousOfferings = previous.offerings
         /\ DetectDrops(run'[r].currentOfferings, previous'.offerings,
                        run[r].no + 1) = run'[r].detectedDrops]_vars

\* C20, amended: the two lists agree in every field but detectedAt, which
\* is read from the clock; the detection step changes neither its two
\* inputs nor any other state.
C20_SameEventsButTime ==
  [][\A r \in Active :
       Detects(r) =>
         /\ UNCHANGED <<latest, previous, priceDrops, mail>>
         /\ run'[r].currentOfferings = run[r].currentOfferings
         /\ run'[r].previousOfferings = previous.offerings
         /\ StripTime(DetectDrops(run'[r].currentOfferings,
                                  previous'.offerings, run[r].no + 1))
              = StripTime(run'[r].detectedDrops)]_vars

\* a detection that has found two drops
C20_Witness ==
  \E r \in Active :
    /\ run[r].pc = "insertDrops"
    /\ Len(run[r].detectedDrops) = 2
    /\ previous = Doc(run[r].previousOfferings)

\* C21: the drop log only grows, by insertions at its end: no step changes
\* or removes an entry it holds, the only step that adds to it is the
\* insertion of a run, which adds the list that run detected, and the
\* entries of a run are that list once it is inserted and none before.
C21_AppendOnlyLog ==
  /\ [](\A r \in Active :
          LoggedBy(run[r].no) \in
            (CASE run[r].pc \in {"notify", "done"} -> {run[r].detectedDrops}
               [] run[r].pc = "failed" -> {<<>>, run[r].detectedDrops}
               [] OTHER -> {<<>>}))
  /\ [][/\ Len(priceDrops') >= Len(priceDrops)
        /\ SubSeq(priceDrops', 1, Len(priceDrops)) = priceDrops
        /\ priceDrops' # priceDrops =>
             \E r \in Active :
               /\ run[r].pc = "insertDrops" /\ Steps(r)
               /\ priceDrops' = priceDrops \o run[r].detectedDrops]_vars

\* the log holds the events of two runs, those of the earlier run first
C21_Witness ==
  /\ Len(priceDrops) = 2
  /\ priceDrops[1].detectedAt = 1 /\ priceDrops[2].detectedAt = 2
  /\ \E r \in Active : run[r].pc = "done" /\ run[r].no = 2

GradesSeen(r) ==
  {pcg \in (DOMAIN run[r].fetched) \X (1..2) \X (1..(MaxGrades + 1)) :
     LET page == run[r].feed[run[r].fetched[pcg[1]]]
     IN /\ page.status = "ok"
        /\ pcg[2] \in DOMAIN page.cruises
        /\ pcg[3] \in DOMAIN page.cruises[pcg[2]].grades}

GradeAt(r, pcg) ==
  run[r].feed[run[r].fetched[pcg[1]]].cruises[pcg[2]].grades[pcg[3]]

VendorAt(r, pcg) ==
  run[r].feed[run[r].fetched[pcg[1]]].cruises[pcg[2]].vendor_id

\* grade code present and a price above zero
PricedGrade(g) == g.grade_code # "" /\ Milli(g.price) > 0

\* and the grade name present as well
NamedPricedGrade(g) == PricedGrade(g) /\ g.grade_name # ""

\* what the flattener of run r has gathered is one offering for each grade
\* seen that passes the test, each with the fields of its grade, and every
\* offering has a grade code and a price above zero
Retains(r, Passes(_)) ==
  LET kept == {pcg \in GradesSeen(r) : Passes(GradeAt(r, pcg))}
  IN /\ \A o \in Range(run[r].allOfferings) :
          o.grade_code # "" /\ Milli(o.price) > 0
     /\ Len(run[r].allOfferings) = Cardinality(kept)
     /\ \A pcg \in kept :
          \E o \in Range(run[r].allOfferings) :
            /\ o.vendor_id = VendorAt(r, pcg)
            /\ o.grade_code = GradeAt(r, pcg).grade_code
            /\ o.grade_name = GradeAt(r, pcg).grade_name
            /\ o.dealName = GradeAt(r, pcg).dealName
            /\ o.price = GradeAt(r, pcg).price

\* C23 as stated: the offerings returned are those of the grades with a
\* grade code and a price above zero, one for each, and each has both.
C23_RetentionFilter == \A r \in Active : Retains(r, PricedGrade)

\* C23: the offerings returned are those of the grades with a grade code,
\* a grade name and a price above zero, one for each (a grade that fails
\* the test is passed over and the grades after it are still taken), and
\* each has a grade code and a price above zero.
C23_RetentionFilterNamed == \A r \in Active : Retains(r, NamedPricedGrade)

\* a page whose first grade has no name and whose second grade is kept
C23_Witness ==
  \E r \in Active :
    /\ Returned(r)
    /\ run[r].fetched = <<API_ENDPOINT_URL>>
    /\ LET grades == run[r].feed[API_ENDPOINT_URL].cruises[1].grades
       IN /\ Len(grades) = 2
          /\ grades[1].grade_name = "" /\ PricedGrade(grades[1])
          /\ NamedPricedGrade(grades[2])
    /\ Len(run[r].currentOfferings) = 1

\* every invocation has ended, one of them has compared its fetch against
\* a baseline other than the offerings "latest" held when it started, and
\* an offering it fetched lies at least 1.00 below its price in that
\* "latest" without any event in the drop log saying so
LostDrop ==
  /\ \A q \in Active : run[q].pc \in {"idle", "done", "skipped", "failed"}
  /\ \E r \in Active :
       /\ run[r].pc = "done"
       /\ run[r].latest0.exists
       /\ UniqueKeys(run[r].latest0.offerings)
       /\ UniqueKeys(run[r].currentOfferings)
       /\ run[r].previousOfferings # run[r].latest0.offerings
       /\ \E c \in Range(run[r].currentOfferings),
             p \in Range(run[r].latest0.offerings) :
            /\ c.offering_id = p.offering_id
            /\ Milli(p.price) - Milli(c.price) >= 1000
            /\ \A e \in Range(priceDrops) :
                 ~(/\ EventKey(e) = c.offering_id
                   /\ e.priceFrom = parseFloat(p.price)
                   /\ e.priceTo = parseFloat(c.price))

\* C24: when the trigger keeps the invocations apart no drop is lost to a
\* wrong baseline; when it does not, two overlapping invocations can both
\* archive "latest" and lose one (the state of C24_Witness).
C24_SerializedKeepsBaseline == world = "serial" => ~LostDrop

\* two overlapping invocations, both of which archived a "latest" they
\* found, and a drop that neither reported
C24_Witness ==
  /\ world = "race"
  /\ LostDrop
  /\ \A q \in Runs : run[q].pc = "done" /\ run[q].latestDoc.exists
  /\ priceDrops = <<>> /\ mail = <<>>

\* C25: a run that found a "latest", archived it and then ends at the write
\* of "latest" without writing it leaves "previous" = the archived content
\* and "latest" as it was; and a run that follows a failed run, starts
\* from such a store and completes with a non-empty fetch has detected the
\* drops against that "latest" content, and leaves it in "previous" and
\* its own fetch in "latest", as a run started from that "latest" alone.
C25_CrashRecovery ==
  /\ [](\A r \in Active :
          (/\ run[r].pc = "done" /\ run[r].lastPc = "failed"
           /\ run[r].latest0.exists
           /\ run[r].previous0 = Doc(run[r].latest0.offerings)
           /\ run[r].currentOfferings # <<>>)
          => /\ run[r].detectedDrops =
                  DetectDrops(run[r].currentOfferings,
                              run[r].latest0.offerings, run[r].no)
             /\ previous = Doc(run[r].latest0.offerings)
             /\ latest = Doc(run[r].currentOfferings))
  /\ [][\A r \in Active :
         (/\ Steps(r) /\ run[r].pc = "saveLatest" /\ run'[r].pc = "failed"
          /\ run[r].latestDoc.exists)
         => /\ previous' = Doc(run[r].latestDoc.offerings)
            /\ latest' = run[r].latestDoc]_vars

\* the run before fetched offerings and failed without writing them to
\* "latest"; this run found "previous" = "latest", detected a drop against
\* it and completed
C25_Witness ==
  \E r \in Active :
    /\ run[r].pc = "done" /\ run[r].lastPc = "failed"
    /\ run[r].latest0.exists
    /\ run[r].previous0 = Doc(run[r].latest0.offerings)
    /\ SeedLatest(run[r].lastFeed) # NoDoc
    /\ SeedLatest(run[r].lastFeed) # run[r].latest0
    /\ run[r].detectedDrops # <<>>
    /\ latest = Doc(run[r].currentOfferings)
    /\ latest # run[r].latest0

\* the flattener of run r holds an offering with the fields of grade g of
\* a cruise of vendor v, each as the feed gave it
Preserved(r, v, g) ==
  \E o \in Range(run[r].allOfferings) :
    /\ o.vendor_id = v
    /\ o.grade_code = g.grade_code
    /\ o.grade_name = g.grade_name
    /\ o.dealName = g.dealName
    /\ o.price = g.price

\* C26 as stated: a grade seen is kept, with its grade name and deal as
\* they are (empty or not), exactly when it has a grade code and a price
\* above zero.
C26_NameAndDealOptional ==
  \A r \in Active :
    \A pcg \in GradesSeen(r) :
      PricedGrade(GradeAt(r, pcg))
        <=> Preserved(r, VendorAt(r, pcg), GradeAt(r, pcg))

\* C26: a grade seen is kept, with its deal as it is (empty or not),
\* exactly when it has a grade code, a grade name and a price above zero.
C26_DealOptional ==
  \A r \in Active :
    \A pcg \in GradesSeen(r) :
      NamedPricedGrade(GradeAt(r, pcg))
        <=> Preserved(r, VendorAt(r, pcg), GradeAt(r, pcg))

\* a page with a grade without a deal, which is kept as it is, and a grade
\* without a name, which is not
C26_Witness ==
  \E r \in Active :
    /\ Returned(r)
    /\ \E o \in Range(run[r].currentOfferings) : o.dealName = ""
    /\ \E pcg \in GradesSeen(r) :
         /\ GradeAt(r, pcg).grade_name = ""
         /\ PricedGrade(GradeAt(r, pcg))
         /\ ~Preserved(r, VendorAt(r, pcg), GradeAt(r, pcg))

\* no two entries of the list are events of the same identity key
OneEventPerKey(drops) ==
  \A i, j \in DOMAIN drops : EventKey(drops[i]) = EventKey(drops[j]) => i = j

\* C27: the events of a run are of different identity keys and follow the
\* order of the offerings it fetched, and neither a notification batch nor
\* the drop-log entries of one run hold two events of one identity key.
C27_OneEventPerOffering ==
  /\ \A r \in Active :
       /\ OneEventPerKey(run[r].detectedDrops)
       /\ \A i, j \in DOMAIN run[r].detectedDrops :
            i < j =>
              \E a, b \in DOMAIN run[r].currentOfferings :
                /\ a < b
                /\ run[r].currentOfferings[a].offering_id
                     = EventKey(run[r].detectedDrops[i])
                /\ run[r].currentOfferings[b].offering_id
                     = EventKey(run[r].detectedDrops[j])
       /\ OneEventPerKey(LoggedBy(run[r].no))
  /\ \A i \in DOMAIN mail : OneEventPerKey(mail[i].priceDrops)

\* C28: an invocation made without the recipient address or without the
\* store ends as skipped at once, having requested no page and with the two
\* slots, the drop log and the calls of the notifier as they were; it takes
\* no step afterwards; and no other invocation ends as skipped.
C28_SkippedNoEffect ==
  [][\A r \in Active :
       /\ (run'[r].no # run[r].no /\ ~(env.email /\ env.db))
            => /\ run'[r].pc = "skipped"
               /\ run'[r].fetched = <<>>
               /\ UNCHANGED <<latest, previous, priceDrops, mail>>
       /\ (run'[r] # run[r] /\ run'[r].pc = "skipped")
            => run'[r].no # run[r].no /\ ~(env.email /\ env.db)
       /\ run[r].pc = "skipped" => ~Steps(r)]_vars

\* the second invocation skipped, on a store that holds a snapshot
C28_Witness ==
  \E r \in Active :
    /\ run[r].pc = "skipped" /\ run[r].no = 2 /\ run[r].lastPc = "skipped"
    /\ latest.exists /\ latest = run[r].latest0
    /\ env.email /\ ~env.db

\* C29: on a feed whose every page answers, a call of fetchCruises
\* requests no URL twice (so it ends after at most as many requests as the
\* feed has pages, also when the next links form a cycle of two URLs).
C29_NoUrlTwice ==
  \A r \in Active :
    (\A u \in Urls : run[r].feed[u].status = "ok") =>
      \A i, j \in DOMAIN run[r].fetched :
        run[r].fetched[i] = run[r].fetched[j] => i = j

\* C30: when the notifier has answered success = false to the batch of a
\* run, without throwing, the run is completed, both of its callers answer
\* success (the cron route with status 200), the drop-log entries of the
\* run are the events it detected and "latest" holds what it fetched.
C30_DeliveryFailureTolerated ==
  \A r \in Active :
    \A i \in DOMAIN mail :
      (/\ mail[i].no = run[r].no /\ run[r].no > 0
       /\ mail[i].priceDrops # <<>>
       /\ ~mail[i].success /\ ~mail[i].threw)
      => /\ run[r].pc = "done"
         /\ run[r].result.action.success
         /\ run[r].result.cron.success /\ run[r].result.cron.status = 200
         /\ LoggedBy(run[r].no) = run[r].detectedDrops
         /\ latest = Doc(run[r].currentOfferings)

\* a completed run whose one batch the notifier could not deliver
C30_Witness ==
  \E r \in Active :
    /\ run[r].pc = "done"
    /\ run[r].detectedDrops # <<>>
    /\ Len(CallsOf(run[r].no)) = 1
    /\ ~CallsOf(run[r].no)[1].success /\ ~CallsOf(run[r].no)[1].threw
    /\ priceDrops = run[r].detectedDrops
    /\ run[r].result.action = runCronJobAction(FALSE)

====
